---------------------------- MODULE Spec2Model ----------------------------
(***************************************************************************)
(* A model of the rabbit_force application runtime: the Application        *)
(* orchestrator (run / _run / _listen_for_messages / forwarding tasks and  *)
(* their completion callback), the message source it pulls from, the       *)
(* replay marker store wired into the source by create_message_source,     *)
(* the router built by create_router and the message sink.                 *)
(*                                                                         *)
(* rabbit_force/app.py, rabbit_force/routing.py and the source/sink        *)
(* packages are not part of the available sources.  The orchestrator is    *)
(* modelled from what src/tests/test_app.py pins down (call sequences,     *)
(* loop condition, callback outcomes) under asyncio's semantics of tasks,  *)
(* done-callbacks and cancellation; what the tests leave open is taken     *)
(* from the specification document.                                        *)
(***************************************************************************)
EXTENDS Integers, Sequences, FiniteSets, TLC

(***************************************************************************)
(* Bounds of the model.                                                    *)
(***************************************************************************)
MaxEvents == 2      \* events the upstream delivers in one run
MaxSignals == 1     \* termination signals (SIGTERM / keyboard interrupt)

Sources == {"orgA", "orgB"}
Channels == {"/topic/x"}
Keys == Sources \X Channels

(***************************************************************************)
(* Routes.  NoRoute stands for Python's None.                              *)
(***************************************************************************)
NoRoute == [broker_name |-> "None", exchange_name |-> "None",
            routing_key |-> "None", properties |-> "None"]
RouteA == [broker_name |-> "b1", exchange_name |-> "e1",
           routing_key |-> "k.a", properties |-> "props"]

\* A routing condition over the message augmented with its source name.
Matches(condition, source_name, message) ==
    IF condition.field = "source"
    THEN source_name = condition.value
    ELSE message.channel = condition.value

\* MessageRouter.find_route: the route of the first matching rule, else the
\* default route.
RECURSIVE FirstMatch(_, _, _, _)
FirstMatch(rules, i, source_name, message) ==
    IF i > Len(rules) THEN 0
    ELSE IF Matches(rules[i].condition, source_name, message) THEN i
    ELSE FirstMatch(rules, i + 1, source_name, message)

find_route(rtr, source_name, message) ==
    LET i == FirstMatch(rtr.rules, 1, source_name, message)
    IN  IF i = 0 THEN rtr.default_route ELSE rtr.rules[i].route

\* Mutant: the rules are built in reverse order.
create_routerReversed(default_route_spec, rule_specs) ==
    [default_route |-> default_route_spec,
     rules |-> [i \in 1..Len(rule_specs) |->
                   [condition |->
                       rule_specs[Len(rule_specs) + 1 - i].condition_spec,
                    route |-> rule_specs[Len(rule_specs) + 1 - i].route_spec]]]

\* create_router: the default route is built iff default_route_spec is not
\* None; the rules keep the order of rule_specs.
create_router(default_route_spec, rule_specs) ==
    [default_route |-> default_route_spec,
     rules |-> [i \in 1..Len(rule_specs) |->
                   [condition |-> rule_specs[i].condition_spec,
                    route |-> rule_specs[i].route_spec]]]

\* Application._router before _configure ran (None).
UnsetRouter == [default_route |-> NoRoute, rules |-> <<>>]

\* The router section of the configuration: one rule routing what comes
\* from orgA, and no default route (messages of orgB are dropped).
RouterConfig ==
    [default_route_spec |-> NoRoute,
     rule_specs |-> <<[condition_spec |-> [field |-> "source",
                                           value |-> "orgA"],
                       route_spec |-> RouteA]>>]

(***************************************************************************)
(* The replay marker store.  0 stands for "no marker".                     *)
(***************************************************************************)
\* The replay section of the configuration (address, key_prefix).  A key is
\* the sequence of its parts, which the storage joins with ":".
ReplaySpec == [address |-> "redis://host", key_prefix |-> <<"rf">>]

\* replay_spec is None, replay_marker_storage is None.
NoReplaySpec == [address |-> "None", key_prefix |-> <<>>]
NoStorage == [address |-> "None", key_prefix |-> <<>>]

\* RedisReplayStorage(**replay_spec)
RedisReplayStorage(replay_spec) ==
    [address |-> replay_spec.address, key_prefix |-> replay_spec.key_prefix]

\* create_message_source: the storage is created iff a replay spec is given.
replay_marker_storage(replay_spec) ==
    IF replay_spec # NoReplaySpec
    THEN RedisReplayStorage(replay_spec)
    ELSE NoStorage

\* Mutant: without a replay spec the fallback is NEW_EVENTS.
replay_fallbackNewEvents(replay_spec) ==
    IF replay_spec # NoReplaySpec THEN "ALL_EVENTS" ELSE "NEW_EVENTS"

\* create_message_source: the fallback is ReplayOption.ALL_EVENTS iff a
\* replay spec is given, else None.
replay_fallback(replay_spec) ==
    IF replay_spec # NoReplaySpec THEN "ALL_EVENTS" ELSE "None"

\* org_factory(**spec)
org_factory(spec) == [built_from |-> spec]

\* SalesforceOrgMessageSource(name, org, replay_marker_storage,
\*                            replay_fallback)
SalesforceOrgMessageSource(name, org, replay, fallback) ==
    [name |-> name, org |-> org, replay |-> replay,
     replay_fallback |-> fallback]

\* The message sources create_message_source builds, one for every item of
\* org_specs, in its order.
message_sources(org_specs, replay_spec) ==
    [i \in 1..Len(org_specs) |->
        SalesforceOrgMessageSource(org_specs[i].name,
                                   org_factory(org_specs[i].spec),
                                   replay_marker_storage(replay_spec),
                                   replay_fallback(replay_spec))]

\* Mutant: a MultiMessageSource is built whatever the number of orgs.
create_message_sourceAlwaysMulti(org_specs, replay_spec) ==
    [multi |-> TRUE, sources |-> message_sources(org_specs, replay_spec)]

\* create_message_source: the single source itself, or a MultiMessageSource
\* over all the sources.
create_message_source(org_specs, replay_spec) ==
    [multi |-> Len(org_specs) # 1,
     sources |-> message_sources(org_specs, replay_spec)]

\* create_message_source: replay_marker_storage is one object handed to
\* every source.  The key prefix of the storage a source writes to is the
\* configured one, whatever the name of the source.
storage_key_prefix(replay_spec, source_name) ==
    replay_marker_storage(replay_spec).key_prefix

\* RedisReplayStorage: the marker of a channel is kept under
\* <key_prefix>:<channel>.
marker_key(key_prefix, channel) == key_prefix \o <<channel>>

\* The key under which the source named source_name keeps the marker of a
\* channel.
StoreKey(source_name, channel) ==
    marker_key(storage_key_prefix(ReplaySpec, source_name), channel)

StoreKeys == {StoreKey(k[1], k[2]) : k \in Keys}

\* The store is handed to every message source by create_message_source and
\* to nothing else: the source's streaming client records the replay id of a
\* message when it receives it.
StoreAfterReceive(st, has_storage, source_name, channel, replay_id) ==
    IF has_storage
    THEN [st EXCEPT ![StoreKey(source_name, channel)] = replay_id]
    ELSE st

\* Mutant: the completion callback commits the marker of its message,
\* whatever the outcome.
StoreAfterDoneAlways(st, pair, outcome) ==
    [st EXCEPT ![StoreKey(pair.source_name, pair.message.channel)] =
                   pair.message.replayId]

\* The completion callback has no access to the store (it runs with
\* _source unset in the tests) and leaves it as it is.
StoreAfterDone(st, pair, outcome) == st

(***************************************************************************)
(* Orchestrator helpers.                                                   *)
(***************************************************************************)
SourceMessagePair(source_name, message) ==
    [source_name |-> source_name, message |-> message]

\* Mutant: the loop goes on only while the source is not closed.
LoopConditionNotClosed(closed, has_pending) == ~closed

\* while not source.closed or source.has_pending_messages
LoopCondition(closed, has_pending) == (~closed) \/ has_pending

\* _schedule_message_forwarding: register the new task with its pair.
TasksAfterSchedule(ft, t, pair) ==
    [x \in (DOMAIN ft) \cup {t} |-> IF x = t THEN pair ELSE ft[x]]

\* Mutant: the task stays registered when the callback re-raises.
TasksAfterDoneUnlessRaised(ft, t, outcome) ==
    IF outcome \in {"sink_error", "error"}
    THEN ft
    ELSE [x \in (DOMAIN ft) \ {t} |-> ft[x]]

\* _forward_message_done: the task leaves the in-flight map in every outcome.
TasksAfterDone(ft, t, outcome) ==
    [x \in (DOMAIN ft) \ {t} |-> ft[x]]

\* Mutant: every sink error is swallowed.
DoneRaisesNoSinkError(outcome, ignore) == outcome = "error"

\* Mutant: the callback re-raises a sink error whatever the flag.
DoneRaisesSinkError(outcome, ignore) == outcome # "returned"

\* _forward_message_done re-raises everything but an ignored sink error.
DoneRaises(outcome, ignore) ==
    \/ outcome = "error"
    \/ outcome = "sink_error" /\ ~ignore

\* Mutant: the message is published whether or not a route was found.
ForwardPublishesAlways(route) == TRUE

\* _forward_message: publish iff a route was found.
ForwardPublishes(route) == route # NoRoute

ConsumeCall(message, route) ==
    [message |-> message, broker_name |-> route.broker_name,
     exchange_name |-> route.exchange_name,
     routing_key |-> route.routing_key, properties |-> route.properties]

\* Mutant: the drain never waits.
WaitNeededNever(ft) == FALSE

\* _wait_scheduled_forwarding_tasks: asyncio.wait is awaited only when the
\* in-flight map is not empty.
WaitNeeded(ft) == DOMAIN ft # {}

\* The replay id of the next event of each upstream channel when the
\* application starts: the channels of different orgs are numbered
\* independently of each other.
FirstReplay == [k \in Keys |-> IF k[1] = "orgA" THEN 2 ELSE 1]

\* Events the upstream has delivered so far.
RECURSIVE SumOver(_, _)
SumOver(f, S) ==
    IF S = {} THEN 0
    ELSE LET k == CHOOSE x \in S : TRUE
         IN  f[k] - FirstReplay[k] + SumOver(f, S \ {k})

Received(nxt) == SumOver(nxt, Keys)

VARIABLES
    ignore_sink_errors,   \* Application.ignore_sink_errors
    replay_configured,    \* source.replay given in the configuration
    router_config,        \* the router section of the configuration
    router,               \* Application._router
    built,                \* which of _source, _sink, _router are set
    configured,           \* Application._configured
    run_pc,               \* position of Application.run
    pump_pc,              \* position of the main task (_run)
    pump_result,          \* "pending", "ok" or "cancelled"
    pending_cancel,       \* a CancelledError travelling through the drain
    cancel_requested,     \* task.cancel() called, not yet delivered
    source_opened,        \* source.open() returned
    source_closed,        \* source.closed
    buffer,               \* messages buffered in the source
    next_replay,          \* next replay id of the upstream per key
    sink_close_started,   \* sink.close() has been called
    sink_closed,          \* sink.close() returned
    forwarding_tasks,     \* Application._forwarding_tasks
    tasks,                \* every forwarding task ever scheduled
    store,                \* replay marker store
    loop_error,           \* exception raised by a completion callback
    n_signals,            \* history: signals received
    signal_kinds,         \* history: kinds of signals received
    cancel_observed,      \* history: the pump caught a CancelledError
    drain_interrupted,    \* history: a cancellation hit the drain
    drain_closed,         \* history: the drain's source.close() returned
    call,                 \* a factory or schema call: function and arguments
    ret,                  \* what the call returned or raised
    ms_ready,             \* MultiMessageSource: children with a message ready
    ms_cursor,            \* MultiMessageSource: child the next pull starts at
    ms_pulls              \* history: the successful get_message calls

vars == <<ignore_sink_errors, replay_configured, router_config, router,
          built, configured, run_pc,
          pump_pc, pump_result, pending_cancel, cancel_requested,
          source_opened, source_closed, buffer, next_replay,
          sink_close_started, sink_closed, forwarding_tasks, tasks,
          store, loop_error, n_signals,
          signal_kinds, cancel_observed, drain_interrupted, drain_closed,
          call, ret, ms_ready, ms_cursor, ms_pulls>>

cfg_vars == <<ignore_sink_errors, replay_configured, router_config>>
app_vars == <<router, built, configured>>
src_vars == <<source_opened, source_closed, buffer, next_replay>>
sink_vars == <<sink_close_started, sink_closed>>
task_vars == <<forwarding_tasks, tasks>>
store_vars == <<store>>
sig_vars == <<n_signals, signal_kinds>>
pump_vars == <<pump_pc, pump_result, pending_cancel, cancel_observed,
               drain_interrupted, drain_closed>>
call_vars == <<call, ret>>
ms_vars == <<ms_ready, ms_cursor, ms_pulls>>

LoopRunning == run_pc \in {"loop1", "loop2"}
Draining == pump_pc \in {"fin_close", "fin_waiting", "fin_sink"}

(***************************************************************************)
(* Init: the state right after Application(...) was constructed.           *)
(***************************************************************************)
AppStart ==
    /\ router_config = RouterConfig
    /\ router = UnsetRouter
    /\ built = {}
    /\ configured = FALSE
    /\ run_pc = "init"
    /\ pump_pc = "none"
    /\ pump_result = "pending"
    /\ pending_cancel = FALSE
    /\ cancel_requested = FALSE
    /\ source_opened = FALSE
    /\ source_closed = TRUE
    /\ buffer = <<>>
    /\ next_replay = FirstReplay
    /\ sink_close_started = FALSE
    /\ sink_closed = FALSE
    /\ forwarding_tasks = <<>>
    /\ tasks = <<>>
    /\ store = [k \in StoreKeys |-> 0]
    /\ loop_error = "none"
    /\ n_signals = 0
    /\ signal_kinds = {}
    /\ cancel_observed = FALSE
    /\ drain_interrupted = FALSE
    /\ drain_closed = FALSE

\* No factory or schema call is under way.
NoCall == [fn |-> "none"]
NotReturned == [done |-> FALSE]
CallIdle == call = NoCall /\ ret = NotReturned

\* The children of the MultiMessageSource, in the order of the configuration.
SourceOrder == <<"orgA", "orgB">>

\* The MultiMessageSource has not been pulled from.
MultiIdle ==
    /\ ms_ready = [i \in 1..Len(SourceOrder) |-> FALSE]
    /\ ms_cursor = 1
    /\ ms_pulls = <<>>

Init ==
    /\ ignore_sink_errors \in BOOLEAN
    /\ replay_configured \in BOOLEAN
    /\ AppStart
    /\ CallIdle
    /\ MultiIdle

(***************************************************************************)
(* Application.run                                                         *)
(***************************************************************************)
\* Mutant: _run starts listening without configuring.
RunFirstStepListens == "open"

\* _run: await self._configure(), then await self._listen_for_messages().
RunFirstStep == "configure"

\* run(): the main task is created from _run(), the SIGTERM handler is
\* installed and the event loop is started.
RunStart ==
    /\ run_pc = "init"
    /\ run_pc' = "loop1"
    /\ pump_pc' = RunFirstStep
    /\ UNCHANGED <<call_vars, ms_vars, cfg_vars, app_vars, pump_result, pending_cancel,
                   cancel_requested, src_vars, sink_vars, task_vars,
                   store_vars, loop_error, sig_vars, cancel_observed,
                   drain_interrupted, drain_closed>>

\* A signal can be delivered while the main task is pumping or draining.
SignalDeliverable ==
    /\ pump_pc \in {"get", "except_close", "fin_close", "fin_waiting",
                    "fin_sink"}
    /\ n_signals < MaxSignals

\* _on_termination_signal(task): task.cancel().
OnTerminationSignal ==
    /\ LoopRunning
    /\ SignalDeliverable
    /\ cancel_requested' = TRUE
    /\ n_signals' = n_signals + 1
    /\ signal_kinds' = signal_kinds \cup {"SIGTERM"}
    /\ UNCHANGED <<call_vars, ms_vars, cfg_vars, app_vars, run_pc, pump_vars, src_vars,
                   sink_vars, task_vars, store_vars, loop_error>>

\* Mutant: run() does not run the loop again after the interrupt.
RunAfterInterruptReturns == "returned"

\* except KeyboardInterrupt: task.cancel(); loop.run_until_complete(task)
RunAfterInterrupt == "loop2"

\* KeyboardInterrupt raised out of the first loop.run_until_complete(task):
\* the event loop stops, run() cancels the main task and runs the loop
\* again.  Raised out of the second run_until_complete it leaves run().
KeyboardInterrupt ==
    /\ LoopRunning
    /\ SignalDeliverable
    /\ IF run_pc = "loop1"
       THEN /\ cancel_requested' = TRUE
            /\ run_pc' = RunAfterInterrupt
       ELSE /\ run_pc' = "raised"
            /\ UNCHANGED cancel_requested
    /\ n_signals' = n_signals + 1
    /\ signal_kinds' = signal_kinds \cup {"SIGINT"}
    /\ UNCHANGED <<call_vars, ms_vars, cfg_vars, app_vars, pump_vars, src_vars, sink_vars,
                   task_vars, store_vars, loop_error>>

\* run_until_complete(task) ends when the main task is done: run() returns
\* when the task returned, and raises what the task or a callback raised.
RunResult(result, error) ==
    IF result = "ok" /\ error = "none" THEN "returned" ELSE "raised"

RunFinish ==
    /\ LoopRunning
    /\ pump_pc = "done"
    /\ run_pc' = RunResult(pump_result, loop_error)
    /\ UNCHANGED <<call_vars, ms_vars, cfg_vars, app_vars, pump_vars, cancel_requested, src_vars,
                   sink_vars, task_vars, store_vars, loop_error, sig_vars>>

(***************************************************************************)
(* The upstream and the message source                                      *)
(***************************************************************************)
\* The streaming client of an open source receives an event: the replay
\* marker is recorded and the message is buffered for get_message.
UpstreamEvent(s, c) ==
    /\ LoopRunning
    /\ source_opened /\ ~source_closed
    /\ Received(next_replay) < MaxEvents
    /\ LET id == next_replay[<<s, c>>]
           st == StoreAfterReceive(store, replay_configured, s, c, id)
       IN  /\ buffer' = Append(buffer,
                 SourceMessagePair(s, [channel |-> c, replayId |-> id]))
           /\ next_replay' = [next_replay EXCEPT ![<<s, c>>] = id + 1]
           /\ store' = st
    /\ UNCHANGED <<call_vars, ms_vars, cfg_vars, app_vars, run_pc, pump_vars, cancel_requested,
                   source_opened, source_closed, sink_vars, task_vars,
                   loop_error, sig_vars>>

\* The source closes on its own (the streaming session ends).
SourceDisconnect ==
    /\ LoopRunning
    /\ source_opened /\ ~source_closed
    /\ pump_pc = "get"
    /\ source_closed' = TRUE
    /\ UNCHANGED <<call_vars, ms_vars, cfg_vars, app_vars, run_pc, pump_vars, cancel_requested,
                   source_opened, buffer, next_replay, sink_vars, task_vars,
                   store_vars, loop_error, sig_vars>>

(***************************************************************************)
(* The main task: _run, _configure, _listen_for_messages                    *)
(***************************************************************************)
\* _configure: source, sink and router are created from the configuration.
PumpConfigure ==
    /\ LoopRunning
    /\ pump_pc = "configure"
    /\ router' = create_router(router_config.default_route_spec,
                               router_config.rule_specs)
    /\ built' = {"source", "sink", "router"}
    /\ configured' = TRUE
    /\ pump_pc' = "open"
    /\ UNCHANGED <<call_vars, ms_vars, cfg_vars, run_pc, pump_result, pending_cancel,
                   cancel_requested, src_vars, sink_vars, task_vars,
                   store_vars, loop_error, sig_vars, cancel_observed,
                   drain_interrupted, drain_closed>>

\* The loop's test decides where the main task goes next: back into
\* get_message, or out of the loop into the drain's source.close().
LoopTarget(closed, has_pending) ==
    IF LoopCondition(closed, has_pending) THEN "get" ELSE "fin_close"

\* await self._source.open(), then the first test of the loop
PumpOpen ==
    /\ LoopRunning
    /\ pump_pc = "open"
    /\ source_opened' = TRUE
    /\ source_closed' = FALSE
    /\ pump_pc' = LoopTarget(FALSE, buffer # <<>>)
    /\ UNCHANGED <<call_vars, ms_vars, cfg_vars, app_vars, run_pc, pump_result, pending_cancel,
                   cancel_requested, buffer, next_replay, sink_vars,
                   task_vars, store_vars, loop_error, sig_vars,
                   cancel_observed, drain_interrupted, drain_closed>>

\* get_message returned a message: the forwarding task is created and
\* registered with its SourceMessagePair, and the loop is tested again.
PumpGetMessage ==
    /\ LoopRunning
    /\ pump_pc = "get"
    /\ ~cancel_requested
    /\ buffer # <<>>
    /\ LET pair == Head(buffer)
           t == Len(tasks) + 1
       IN  /\ tasks' = Append(tasks,
                 [pair |-> pair, state |-> "scheduled", route |-> NoRoute,
                  calls |-> <<>>, outcome |-> "pending",
                  result |-> NoRoute, after_cancel |-> cancel_observed])
           /\ forwarding_tasks' = TasksAfterSchedule(forwarding_tasks, t, pair)
    /\ buffer' = Tail(buffer)
    /\ pump_pc' = LoopTarget(source_closed, Tail(buffer) # <<>>)
    /\ UNCHANGED <<call_vars, ms_vars, cfg_vars, app_vars, run_pc, pump_result, pending_cancel,
                   cancel_requested, source_opened, source_closed,
                   next_replay, sink_vars, store_vars,
                   loop_error, sig_vars, cancel_observed, drain_interrupted,
                   drain_closed>>

\* get_message raised CancelledError: the task was cancelled, or the source
\* was closed while get_message had nothing to return.  The handler closes
\* the source and the loop goes on with what is buffered.
PumpGetCancelled ==
    /\ LoopRunning
    /\ pump_pc = "get"
    /\ cancel_requested \/ (source_closed /\ buffer = <<>>)
    /\ cancel_requested' = FALSE
    /\ cancel_observed' = TRUE
    /\ pump_pc' = "except_close"
    /\ UNCHANGED <<call_vars, ms_vars, cfg_vars, app_vars, run_pc, pump_result, pending_cancel,
                   src_vars, sink_vars, task_vars, store_vars, loop_error,
                   sig_vars, drain_interrupted, drain_closed>>

\* Mutant: the handler does not close the source.
ClosedAfterHandlerKept(closed) == closed

\* source.closed once the handler's source.close() returned.
ClosedAfterHandler(closed) == TRUE

\* await self._source.close() in the handler, then the loop's test.  A
\* cancellation delivered here leaves the loop with the CancelledError
\* pending.
PumpExceptClose ==
    /\ LoopRunning
    /\ pump_pc = "except_close"
    /\ IF cancel_requested
       THEN /\ cancel_requested' = FALSE
            /\ pending_cancel' = TRUE
            /\ pump_pc' = "fin_close"
            /\ UNCHANGED source_closed
       ELSE /\ source_closed' = ClosedAfterHandler(source_closed)
            /\ pump_pc' = LoopTarget(ClosedAfterHandler(source_closed),
                                     buffer # <<>>)
            /\ UNCHANGED <<cancel_requested, pending_cancel>>
    /\ UNCHANGED <<call_vars, ms_vars, cfg_vars, app_vars, run_pc, pump_result, source_opened,
                   buffer, next_replay, sink_vars, task_vars, store_vars,
                   loop_error, sig_vars, cancel_observed, drain_interrupted,
                   drain_closed>>

\* A cancellation delivered to one of the drain's awaits ends the task.
PumpDrainCancelled ==
    /\ LoopRunning
    /\ Draining
    /\ cancel_requested
    /\ cancel_requested' = FALSE
    /\ drain_interrupted' = TRUE
    /\ pump_pc' = "done"
    /\ pump_result' = "cancelled"
    /\ UNCHANGED <<call_vars, ms_vars, cfg_vars, app_vars, run_pc, pending_cancel, src_vars,
                   sink_vars, task_vars, store_vars, loop_error, sig_vars,
                   cancel_observed, drain_closed>>

\* What follows the drain's source.close():
\* _wait_scheduled_forwarding_tasks waits only when tasks are in flight,
\* else sink.close() is called at once.
AfterDrainClose(ft) == IF WaitNeeded(ft) THEN "fin_waiting" ELSE "fin_sink"

PumpFinClose ==
    /\ LoopRunning
    /\ pump_pc = "fin_close"
    /\ ~cancel_requested
    /\ source_closed' = TRUE
    /\ drain_closed' = TRUE
    /\ pump_pc' = AfterDrainClose(forwarding_tasks)
    /\ sink_close_started' = (AfterDrainClose(forwarding_tasks) = "fin_sink")
    /\ UNCHANGED <<call_vars, ms_vars, cfg_vars, app_vars, run_pc, pump_result, pending_cancel,
                   cancel_requested, source_opened, buffer, next_replay,
                   sink_closed, task_vars, store_vars, loop_error, sig_vars,
                   cancel_observed, drain_interrupted>>

\* Mutant: asyncio.wait returns as soon as one task is done.
WaitOverFirst(ft, ts) == \E t \in DOMAIN ts : ts[t].state = "called"

\* asyncio.wait returned: every waited task is done and its completion
\* callback, added before asyncio.wait's own, has run.
WaitOver(ft, ts) == \A t \in DOMAIN ts : ts[t].state = "called"

PumpFinWait ==
    /\ LoopRunning
    /\ pump_pc = "fin_waiting"
    /\ ~cancel_requested
    /\ WaitOver(forwarding_tasks, tasks)
    /\ pump_pc' = "fin_sink"
    /\ sink_close_started' = TRUE
    /\ UNCHANGED <<call_vars, ms_vars, cfg_vars, app_vars, run_pc, pump_result, pending_cancel,
                   cancel_requested, src_vars, sink_closed, task_vars,
                   store_vars, loop_error, sig_vars, cancel_observed,
                   drain_interrupted, drain_closed>>

\* sink.close() returned: the main task is done.
PumpFinSink ==
    /\ LoopRunning
    /\ pump_pc = "fin_sink"
    /\ ~cancel_requested
    /\ sink_closed' = TRUE
    /\ pump_pc' = "done"
    /\ pump_result' = IF pending_cancel THEN "cancelled" ELSE "ok"
    /\ UNCHANGED <<call_vars, ms_vars, cfg_vars, app_vars, run_pc, pending_cancel,
                   cancel_requested, src_vars, sink_close_started, task_vars,
                   store_vars, loop_error, sig_vars, cancel_observed,
                   drain_interrupted, drain_closed>>

(***************************************************************************)
(* Forwarding tasks: _forward_message and _forward_message_done             *)
(***************************************************************************)
\* _forward_message up to its await: the route is looked up and, when one
\* is found, sink.consume_message is called with it.
ForwardStart(t) ==
    /\ LoopRunning
    /\ t \in 1..Len(tasks)
    /\ tasks[t].state = "scheduled"
    /\ LET pair == tasks[t].pair
           route == find_route(router, pair.source_name, pair.message)
       IN  IF ForwardPublishes(route)
           THEN tasks' = [tasks EXCEPT
                    ![t].state = "publishing",
                    ![t].route = route,
                    ![t].calls = Append(@, ConsumeCall(pair.message, route))]
           ELSE tasks' = [tasks EXCEPT ![t].state = "settled",
                                       ![t].outcome = "returned",
                                       ![t].result = NoRoute]
    /\ UNCHANGED <<call_vars, ms_vars, cfg_vars, app_vars, run_pc, pump_vars, cancel_requested,
                   src_vars, sink_vars, forwarding_tasks, store_vars,
                   loop_error, sig_vars>>

\* sink.consume_message returned or raised: the task is done with the route
\* as its result, with a MessageSinkError or with another exception.
ForwardPublishEnd(t, result) ==
    /\ LoopRunning
    /\ t \in 1..Len(tasks)
    /\ tasks[t].state = "publishing"
    /\ tasks' = [tasks EXCEPT
                    ![t].state = "settled",
                    ![t].outcome = result,
                    ![t].result = IF result = "returned"
                                  THEN tasks[t].route ELSE NoRoute]
    /\ UNCHANGED <<call_vars, ms_vars, cfg_vars, app_vars, run_pc, pump_vars, cancel_requested,
                   src_vars, sink_vars, forwarding_tasks, store_vars,
                   loop_error, sig_vars>>

\* An error raised by a completion callback is fatal: it makes a pumping
\* main task leave its loop through the drain.
FatalCancels(pc) == pc = "get"

\* _forward_message_done(future)
ForwardDone(t) ==
    /\ LoopRunning
    /\ t \in 1..Len(tasks)
    /\ tasks[t].state = "settled"
    /\ tasks' = [tasks EXCEPT ![t].state = "called"]
    /\ forwarding_tasks' =
          TasksAfterDone(forwarding_tasks, t, tasks[t].outcome)
    /\ store' = StoreAfterDone(store, tasks[t].pair, tasks[t].outcome)
    /\ IF DoneRaises(tasks[t].outcome, ignore_sink_errors)
       THEN /\ loop_error' =
                  IF loop_error = "none" THEN tasks[t].outcome ELSE loop_error
            /\ cancel_requested' =
                  (cancel_requested \/ FatalCancels(pump_pc))
       ELSE UNCHANGED <<loop_error, cancel_requested>>
    /\ UNCHANGED <<call_vars, ms_vars, cfg_vars, app_vars, run_pc, pump_vars, src_vars,
                   sink_vars, sig_vars>>

\* sink.consume_message returns, raises MessageSinkError or raises
\* something else.
PublishResults == {"returned", "sink_error", "error"}

Next ==
    \/ RunStart
    \/ OnTerminationSignal
    \/ KeyboardInterrupt
    \/ RunFinish
    \/ \E s \in Sources, c \in Channels : UpstreamEvent(s, c)
    \/ SourceDisconnect
    \/ PumpConfigure
    \/ PumpOpen
    \/ PumpGetMessage
    \/ PumpGetCancelled
    \/ PumpExceptClose
    \/ PumpDrainCancelled
    \/ PumpFinClose
    \/ PumpFinWait
    \/ PumpFinSink
    \/ \E t \in 1..MaxEvents : ForwardStart(t)
    \/ \E t \in 1..MaxEvents, r \in PublishResults : ForwardPublishEnd(t, r)
    \/ \E t \in 1..MaxEvents : ForwardDone(t)

Spec == Init /\ [][Next]_vars

\* The steps of the main task, of the forwarding tasks and of run() are
\* taken when they can be: get_message, source.close() and sink.close()
\* return, every forwarding task settles and its completion callback runs.
\* Signals, upstream events and the end of the streaming session are not
\* bound to happen.
Fairness ==
    /\ WF_vars(PumpGetMessage)
    /\ WF_vars(PumpGetCancelled)
    /\ WF_vars(PumpExceptClose)
    /\ WF_vars(PumpDrainCancelled)
    /\ WF_vars(PumpFinClose)
    /\ WF_vars(PumpFinWait)
    /\ WF_vars(PumpFinSink)
    /\ WF_vars(RunFinish)
    /\ \A t \in 1..MaxEvents :
          /\ WF_vars(ForwardStart(t))
          /\ WF_vars(\E r \in PublishResults : ForwardPublishEnd(t, r))
          /\ WF_vars(ForwardDone(t))

LiveSpec == Init /\ [][Next]_vars /\ Fairness

(***************************************************************************)
(* Factory and schema calls.  A call is drawn with its arguments from       *)
(* bounded sets and the called function is applied to them once.            *)
(***************************************************************************)
MaxRules == 2       \* routing rules of a router configuration

app_state == <<cfg_vars, app_vars, run_pc, pump_vars, cancel_requested,
               src_vars, sink_vars, task_vars, store_vars, loop_error,
               sig_vars>>

Returned(value) == [done |-> TRUE, raised |-> FALSE, value |-> value]
Raised(error) == [done |-> TRUE, raised |-> TRUE, error |-> error]

\* Sequences over S of length 0..n
SeqsUpTo(S, n) == UNION {[1..k -> S] : k \in 0..n}

RouteB == [broker_name |-> "b2", exchange_name |-> "e2",
           routing_key |-> "k.b", properties |-> "None"]

RuleConditions ==
    {[field |-> "source", value |-> v] : v \in Sources}
        \cup {[field |-> "channel", value |-> "/topic/x"]}

RuleSpecs ==
    [condition_spec : RuleConditions, route_spec : {RouteA, RouteB}]

RouterCalls ==
    [fn : {"find_route"},
     default_route_spec : {NoRoute, RouteA, RouteB},
     rule_specs : SeqsUpTo(RuleSpecs, MaxRules),
     source_name : Sources,
     message : [channel : {"/topic/x", "/topic/y"}, replayId : {1}]]

\* create_router(**config["router"]), then router.find_route(source, message)
CallFindRoute ==
    /\ call.fn = "find_route"
    /\ ~ret.done
    /\ LET rtr == create_router(call.default_route_spec, call.rule_specs)
       IN  ret' = Returned([router |-> rtr,
                            route |-> find_route(rtr, call.source_name,
                                                 call.message)])
    /\ UNCHANGED <<call, app_state, ms_vars>>

MaxOrgs == 2        \* orgs of a source configuration

OrgNames == {"orgA", "orgB", "orgC"}
OrgSpecs == [name : OrgNames, spec : [username : {"u1", "u2"}]]

\* source.orgs: at least one org, no name twice (the keys of a mapping).
OrgSpecLists ==
    {l \in SeqsUpTo(OrgSpecs, MaxOrgs) :
        /\ Len(l) >= 1
        /\ \A i, j \in 1..Len(l) : l[i].name = l[j].name => i = j}

ReplaySpecs ==
    {NoReplaySpec, ReplaySpec,
     [address |-> "redis://host", key_prefix |-> <<>>]}

SourceCalls ==
    [fn : {"create_message_source"},
     org_specs : OrgSpecLists,
     replay_spec : ReplaySpecs]

\* create_message_source(**config["source"])
CallCreateMessageSource ==
    /\ call.fn = "create_message_source"
    /\ ~ret.done
    /\ ret' = Returned(create_message_source(call.org_specs,
                                             call.replay_spec))
    /\ UNCHANGED <<call, app_state, ms_vars>>

\* ---------------------------------------------------------------------------
\* Configuration schemas (config_schema.py)
\* ---------------------------------------------------------------------------

MaxKeys == 2        \* keys of the mapping check_unknown_fields is given
MaxSpecFields == 4  \* keys of a streaming resource spec

\* Float bounds of PushTopicSchema, in tenths (28.5 is 285).
MinApiVersion == 200
MaxApiVersion == 420
OldApiVersion == 280
NewApiVersion == 290
NoApiVersion == 0

\* self.fields of every schema: the names of its declared fields.
SchemaFields ==
    [PushTopicSchema |->
        {"Id", "Name", "ApiVersion", "IsActive", "NotifyForFields",
         "Description", "NotifyForOperationCreate",
         "NotifyForOperationUpdate", "NotifyForOperationDelete",
         "NotifyForOperationUndelete", "NotifyForOperations", "Query"},
     StreamingChannelSchema |-> {"Id", "Name", "Description"},
     StreamingResourceSchema |-> {"type", "spec", "durable"},
     SalesforceOrgSchema |->
        {"consumer_key", "consumer_secret", "username", "password",
         "resources"},
     ReplaySchema |-> {"address", "key_prefix"},
     MessageSourceSchema |-> {"orgs", "replay"},
     AmqpExchangeSchema |->
        {"exchange_name", "type_name", "passive", "durable", "auto_delete",
         "no_wait", "arguments"},
     AmqpBrokerSchema |->
        {"host", "port", "login", "password", "virtualhost", "ssl",
         "verify_ssl", "login_method", "insist", "exchanges"},
     MessageSinkSchema |-> {"brokers"},
     RouteSchema |->
        {"broker_name", "exchange_name", "routing_key", "properties"},
     RoutingRuleSchema |-> {"condition", "route"},
     MessageRouterSchema |-> {"default_route", "rules"},
     ApplicationConfigSchema |-> {"source", "sink", "router"}]

\* The subclasses of StrictSchema.
StrictSchemas == DOMAIN SchemaFields

\* Mutant: the check looks at the loaded data, which holds declared fields
\* only.
check_unknown_fieldsLoaded(schema, original_data) ==
    LET unknown_fields ==
            (original_data \cap SchemaFields[schema]) \ SchemaFields[schema]
    IN  IF unknown_fields # {}
        THEN Raised([message |-> "Unknown field",
                     field_names |-> unknown_fields])
        ELSE Returned("None")

\* StrictSchema.check_unknown_fields
check_unknown_fields(schema, original_data) ==
    LET unknown_fields == original_data \ SchemaFields[schema]
    IN  IF unknown_fields # {}
        THEN Raised([message |-> "Unknown field",
                     field_names |-> unknown_fields])
        ELSE Returned("None")

\* Keys that no schema declares, and keys declared by some schemas only.
OtherKeys == {"foo", "Name"}

UnknownFieldCalls ==
    UNION {[fn : {"check_unknown_fields"},
            schema : {sc},
            original_data :
                {d \in SUBSET (SchemaFields[sc] \cup OtherKeys) :
                    Cardinality(d) <= MaxKeys}] : sc \in StrictSchemas}

\* StrictSchema.check_unknown_fields(data, original_data)
CallCheckUnknownFields ==
    /\ call.fn = "check_unknown_fields"
    /\ ~ret.done
    /\ ret' = check_unknown_fields(call.schema, call.original_data)
    /\ UNCHANGED <<call, app_state, ms_vars>>

\* StreamingResourceSchema.load_spec: schema_map
schema_map ==
    [PushTopic |-> "PushTopicSchema",
     StreamingChannel |-> "StreamingChannelSchema"]

\* The fields of a resource spec whose value fails the validation of the
\* field: an ApiVersion outside Range(min=20.0, max=42.0).
FieldErrors(schema, spec) ==
    IF /\ schema = "PushTopicSchema"
       /\ "ApiVersion" \in spec.keys
       /\ spec.ApiVersion \notin MinApiVersion..MaxApiVersion
    THEN {"ApiVersion"}
    ELSE {}

\* The data a schema validator is given: the declared fields of the spec
\* that passed their own validation.
LoadedData(schema, spec) ==
    [keys |-> (spec.keys \cap SchemaFields[schema])
                  \ FieldErrors(schema, spec),
     ApiVersion |-> spec.ApiVersion]

\* ValidationError(message): an error of the schema as a whole.
SchemaError(message) == [message |-> message, field_names |-> {"_schema"}]

\* Mutant: a spec of identifier fields only is taken as a reference, however
\* many they are.
check_required_filedsReference(schema, data) ==
    IF schema = "PushTopicSchema"
    THEN IF data.keys # {} /\ data.keys \subseteq {"Id", "Name"}
         THEN Returned("None")
         ELSE IF {"Name", "ApiVersion", "Query"} \subseteq data.keys
              THEN Returned("None")
              ELSE Raised(SchemaError("Required fields"))
    ELSE IF Cardinality(data.keys) = 1
         THEN IF data.keys \cap {"Id", "Name"} = {}
              THEN Raised(SchemaError("Required fields"))
              ELSE Returned("None")
         ELSE IF data.keys = {}
              THEN Raised(SchemaError("Required fields"))
              ELSE Returned("None")

\* Mutant: a spec of a single field is accepted whatever the field.
check_required_filedsAnySingle(schema, data) ==
    IF Cardinality(data.keys) = 1
    THEN Returned("None")
    ELSE IF data.keys = {}
         THEN Raised(SchemaError("Required fields"))
         ELSE IF /\ schema = "PushTopicSchema"
                 /\ ~({"Name", "ApiVersion", "Query"} \subseteq data.keys)
              THEN Raised(SchemaError("Required fields"))
              ELSE Returned("None")

\* PushTopicSchema.check_required_fileds and
\* StreamingChannelSchema.check_required_fileds
check_required_fileds(schema, data) ==
    IF schema = "PushTopicSchema"
    THEN IF Cardinality(data.keys) = 1
         THEN IF data.keys \cap {"Id", "Name"} = {}
              THEN Raised(SchemaError("Required fields"))
              ELSE Returned("None")
         ELSE IF Cardinality(data.keys) > 1
              THEN IF data.keys \cap {"Name", "ApiVersion", "Query"}
                          # {"Name", "ApiVersion", "Query"}
                   THEN Raised(SchemaError("Required fields"))
                   ELSE Returned("None")
              ELSE Raised(SchemaError("Required fields"))
    ELSE IF Cardinality(data.keys) = 1
         THEN IF data.keys \cap {"Id", "Name"} = {}
              THEN Raised(SchemaError("Required fields"))
              ELSE Returned("None")
         ELSE IF data.keys = {}
              THEN Raised(SchemaError("Required fields"))
              ELSE Returned("None")

NewOperationFields ==
    {"NotifyForOperationCreate", "NotifyForOperationDelete",
     "NotifyForOperationUndelete", "NotifyForOperationUpdate"}

\* PushTopicSchema.check_api_version
check_api_version(data) ==
    IF "ApiVersion" \notin data.keys
    THEN Returned("None")
    ELSE IF /\ data.ApiVersion >= NewApiVersion
            /\ "NotifyForOperations" \in data.keys
         THEN Raised(SchemaError("Invalid field for the API version"))
         ELSE IF /\ data.ApiVersion <= OldApiVersion
                 /\ data.keys \cap NewOperationFields # {}
              THEN Raised(SchemaError("Invalid field for the API version"))
              ELSE Returned("None")

\* The schema validators (validates_schema) of a resource spec schema that
\* raise for a spec.
SchemaErrors(schema, spec) ==
    LET data == LoadedData(schema, spec)
        results ==
            {check_unknown_fields(schema, spec.keys),
             check_required_fileds(schema, data)}
                \cup (IF schema = "PushTopicSchema"
                      THEN {check_api_version(data)}
                      ELSE {})
    IN  {r.error : r \in {x \in results : x.raised}}

\* schema_cls().load(spec): the spec is rejected with the errors of its
\* fields and of the schema validators that ran; the library decides whether
\* the schema validators run when a field failed (run_validators).
\* Without any error the loaded data is returned.
load(schema, spec, run_validators) ==
    LET errors == [fields |-> FieldErrors(schema, spec),
                   schema |-> IF run_validators
                              THEN SchemaErrors(schema, spec)
                              ELSE {}]
    IN  IF errors.fields # {} \/ errors.schema # {}
        THEN Raised(errors)
        ELSE Returned(LoadedData(schema, spec))

ApiVersions ==
    {MinApiVersion - 1, MinApiVersion, OldApiVersion,
     OldApiVersion + 5, NewApiVersion, MaxApiVersion, MaxApiVersion + 1}

SpecKeys ==
    {"Id", "Name", "ApiVersion", "Query", "Description",
     "NotifyForOperations", "foo"} \cup NewOperationFields

ResourceSpecs ==
    {sp \in [keys : {k \in SUBSET SpecKeys : Cardinality(k) <= MaxSpecFields},
             ApiVersion : ApiVersions \cup {NoApiVersion}] :
        sp.ApiVersion = NoApiVersion <=> "ApiVersion" \notin sp.keys}

LoadSpecCalls ==
    [fn : {"load_spec"}, type : DOMAIN schema_map, spec : ResourceSpecs]

\* StreamingResourceSchema.load_spec
CallLoadSpec ==
    /\ call.fn = "load_spec"
    /\ ~ret.done
    /\ LET schema_cls == schema_map[call.type]
       IN  \E run_validators \in BOOLEAN :
              /\ FieldErrors(schema_cls, call.spec) = {} => run_validators
              /\ ret' = load(schema_cls, call.spec, run_validators)
    /\ UNCHANGED <<call, app_state, ms_vars>>

BrokerNames == {"b1", "b2"}

ConfigRoutes ==
    [broker_name : {""} \cup BrokerNames, exchange_name : {"e1"},
     routing_key : {"", "k"}, properties : {"None"}]

\* create_message_sink: the sink registry, one message sink for every item
\* of broker_specs, under the name of the broker.
create_message_sink(broker_specs) ==
    [name \in broker_specs |-> [broker |-> name]]

\* RouteSchema: the required fields with Length(min=1) that fail.
RouteErrors(route) ==
    {f \in {"broker_name", "routing_key"} : route[f] = ""}

\* ApplicationConfigSchema().load(config), for the sink.brokers and router
\* parts of a configuration whose other parts are valid: the errors are those
\* of the routes.
load_config(config) ==
    LET errors ==
            (IF config.default_route = NoRoute
             THEN {}
             ELSE RouteErrors(config.default_route))
            \cup UNION {RouteErrors(config.rules[i]) :
                           i \in 1..Len(config.rules)}
    IN  IF errors # {}
        THEN Raised(errors)
        ELSE Returned(config)

ConfigCalls ==
    [fn : {"load_config"},
     brokers : (SUBSET BrokerNames) \ {{}},
     default_route : {NoRoute} \cup ConfigRoutes,
     rules : SeqsUpTo(ConfigRoutes, MaxRules)]

\* ApplicationConfigSchema().load(config)
CallLoadConfig ==
    /\ call.fn = "load_config"
    /\ ~ret.done
    /\ ret' = load_config([brokers |-> call.brokers,
                           default_route |-> call.default_route,
                           rules |-> call.rules])
    /\ UNCHANGED <<call, app_state, ms_vars>>

MaxExchanges == 2   \* exchanges of a broker configuration

ExchangeNames == {"e1", "e2"}

\* exchange_specs of a broker: at least one exchange.
ExchangeSpecLists ==
    {l \in SeqsUpTo([exchange_name : ExchangeNames], MaxExchanges) :
        Len(l) >= 1}

\* The awaits of create_broker, in the order of the code: aioamqp.connect,
\* protocol.channel, then channel.exchange_declare for every spec.
BrokerSteps(exchange_specs) ==
    <<[op |-> "connect"], [op |-> "channel"]>>
        \o [i \in 1..Len(exchange_specs) |->
               [op |-> "exchange_declare",
                exchange_name |-> exchange_specs[i].exchange_name]]

\* Mutant: a failed exchange declaration is skipped and the remaining
\* exchanges are declared before the error is raised.
create_brokerDeclaresRest(exchange_specs, failing) ==
    LET steps == BrokerSteps(exchange_specs)
    IN  IF failing = 0
        THEN [done |-> steps, connected |-> TRUE,
              result |-> Returned("broker")]
        ELSE [done |-> IF failing <= 2
                       THEN SubSeq(steps, 1, failing - 1)
                       ELSE SubSeq(steps, 1, failing - 1)
                                \o SubSeq(steps, failing + 1, Len(steps)),
              connected |-> failing > 1,
              result |-> Raised(steps[failing].op)]

\* create_broker: the awaits run one after the other; the one that raises
\* (failing, 0 when none does) ends the function with its error, and the
\* connection made by connect stays as it is.  done: the awaits that
\* returned; connected: a connection to the broker is open.
create_broker(exchange_specs, failing) ==
    LET steps == BrokerSteps(exchange_specs)
    IN  IF failing = 0
        THEN [done |-> steps, connected |-> TRUE,
              result |-> Returned("broker")]
        ELSE [done |-> SubSeq(steps, 1, failing - 1),
              connected |-> failing > 1,
              result |-> Raised(steps[failing].op)]

BrokerCalls ==
    UNION {[fn : {"create_broker"},
            exchange_specs : {l},
            failing : 0..(Len(l) + 2)] : l \in ExchangeSpecLists}

\* create_broker(**params)
CallCreateBroker ==
    /\ call.fn = "create_broker"
    /\ ~ret.done
    /\ ret' = Returned(create_broker(call.exchange_specs, call.failing))
    /\ UNCHANGED <<call, app_state, ms_vars>>

\* MessageRouterSchema: the field names and the attribute each is loaded to.
RouterAttributes ==
    [default_route |-> "default_route_spec", rules |-> "rule_specs"]

\* MessageRouterSchema().load(config): default_route is required (None
\* allowed), rules is not and has no value when absent; the loaded data has
\* one item for every given field, under the attribute of the field.
MessageRouterSchema_load(config) ==
    IF "default_route" \notin config.keys
    THEN Raised([fields |-> {"default_route"}, schema |-> {}])
    ELSE Returned({RouterAttributes[k] : k \in config.keys})

\* create_router(*, default_route_spec, rule_specs, route_factory=Route,
\* rule_factory=create_rule): the keywords without and with a default.
create_routerRequired == {"default_route_spec", "rule_specs"}
create_routerParameters ==
    create_routerRequired \cup {"route_factory", "rule_factory"}

\* A call of create_router by keywords: a missing required keyword or a
\* keyword that is no parameter raises TypeError before its body runs.
call_create_router(keywords, default_route_spec, rule_specs) ==
    IF /\ create_routerRequired \subseteq keywords
       /\ keywords \subseteq create_routerParameters
    THEN Returned(create_router(default_route_spec, rule_specs))
    ELSE Raised("TypeError")

RouterConfigs ==
    [keys : SUBSET {"default_route", "rules"},
     default_route : {NoRoute, RouteA},
     rules : SeqsUpTo(RuleSpecs, 1)]

ConfigureRouterCalls ==
    {c \in [fn : {"configure_router"}, config : RouterConfigs] :
        /\ "default_route" \notin c.config.keys =>
              c.config.default_route = NoRoute
        /\ "rules" \notin c.config.keys => c.config.rules = <<>>}

\* The router section is loaded by MessageRouterSchema and, when accepted,
\* Application._configure calls create_router(**config["router"]).
CallConfigureRouter ==
    /\ call.fn = "configure_router"
    /\ ~ret.done
    /\ LET loaded == MessageRouterSchema_load(call.config)
       IN  ret' = IF loaded.raised
                  THEN Returned([accepted |-> FALSE, router |-> loaded])
                  ELSE Returned([accepted |-> TRUE,
                                 router |->
                                     call_create_router(
                                         loaded.value,
                                         call.config.default_route,
                                         call.config.rules)])
    /\ UNCHANGED <<call, app_state, ms_vars>>

MaxEntries == 2     \* orgs of the source section, brokers of the sink section
MaxItems == 1       \* resources of an org, exchanges of a broker

\* A required collection field: whether the key is given and how many
\* elements its value has.
Collections == {c \in [given : BOOLEAN, n : 0..MaxItems] : ~c.given => c.n = 0}
NotGiven == [given |-> FALSE, items |-> <<>>]
Sections ==
    {NotGiven} \cup [given : {TRUE}, items : SeqsUpTo(Collections, MaxEntries)]

\* Mutant: Length(min=1) accepts the empty collection.
LengthAtLeastOneAny(n) == TRUE

\* validate=Length(min=1)
LengthAtLeastOne(n) == n >= 1

\* A field declared with required=True and validate=Length(min=1): the
\* errors of a value, given or not, of n elements.
RequiredNonEmpty(field, given, n) ==
    IF ~given THEN {<<field, "required">>}
    ELSE IF ~LengthAtLeastOne(n) THEN {<<field, "length">>}
    ELSE {}

\* MessageSourceSchema.orgs / MessageSinkSchema.brokers, with the nested
\* SalesforceOrgSchema.resources / AmqpBrokerSchema.exchanges of every value.
SectionErrors(field, nested, section) ==
    RequiredNonEmpty(field, section.given, Len(section.items))
        \cup UNION {RequiredNonEmpty(nested, section.items[i].given,
                                     section.items[i].n) :
                       i \in 1..Len(section.items)}

\* ApplicationConfigSchema().load(config): source, sink and router are
\* required; the errors are those of the sections that are given.
ApplicationConfigSchema_load(config) ==
    LET errors ==
            {<<k, "required">> : k \in {"source", "sink", "router"} \ config.keys}
            \cup (IF "source" \in config.keys
                  THEN SectionErrors("orgs", "resources", config.source)
                  ELSE {})
            \cup (IF "sink" \in config.keys
                  THEN SectionErrors("brokers", "exchanges", config.sink)
                  ELSE {})
            \cup (IF /\ "router" \in config.keys
                     /\ "default_route" \notin config.router.keys
                  THEN {<<"default_route", "required">>}
                  ELSE {})
    IN  IF errors # {} THEN Raised(errors) ELSE Returned(config)

NoRouterSection == [keys |-> {}, default_route |-> NoRoute, rules |-> <<>>]

ApplicationConfigs ==
    {c \in [keys : SUBSET {"source", "sink", "router"},
            source : Sections,
            sink : Sections,
            router : {r \in RouterConfigs :
                        r.default_route = NoRoute /\ r.rules = <<>>}] :
        /\ "source" \notin c.keys => c.source = NotGiven
        /\ "sink" \notin c.keys => c.sink = NotGiven
        /\ "router" \notin c.keys => c.router = NoRouterSection}

ApplicationConfigCalls ==
    [fn : {"load_application_config"}, config : ApplicationConfigs]

\* ApplicationConfigSchema().load(config)
CallLoadApplicationConfig ==
    /\ call.fn = "load_application_config"
    /\ ~ret.done
    /\ ret' = ApplicationConfigSchema_load(call.config)
    /\ UNCHANGED <<call, app_state, ms_vars>>

\* sink.brokers in configuration order: at least one broker, no name twice,
\* every broker with one exchange.
BrokerSpecLists ==
    {l \in SeqsUpTo([name : BrokerNames,
                     exchange_specs : {<<[exchange_name |-> "e1"]>>}],
                    Cardinality(BrokerNames)) :
        /\ Len(l) >= 1
        /\ \A i, j \in 1..Len(l) : l[i].name = l[j].name => i = j}

\* create_message_sink, brokers = {name: await broker_factory(**params)}:
\* the brokers are created one after the other in the order of
\* broker_specs; the await `failing` of broker `failing_broker` raises
\* (0: none).  The error of create_broker leaves the comprehension and the
\* function, and nothing is done to the brokers created so far.
\* connected: the brokers a connection is open to when the function ends.
create_brokers(broker_specs, failing_broker, failing) ==
    LET last == IF failing_broker = 0 THEN Len(broker_specs)
                ELSE failing_broker
        made == [i \in 1..last |->
                    create_broker(broker_specs[i].exchange_specs,
                                  IF i = failing_broker THEN failing ELSE 0)]
        names == {broker_specs[i].name : i \in 1..Len(broker_specs)}
    IN  [connected |-> {broker_specs[i].name :
                           i \in {j \in 1..last : made[j].connected}},
         result |-> IF failing_broker = 0
                    THEN Returned(create_message_sink(names))
                    ELSE made[failing_broker].result]

SinkCalls ==
    UNION {{c \in [fn : {"create_message_sink"},
                   broker_specs : {l},
                   failing_broker : 0..Len(l),
                   failing : 0..3] :
               c.failing_broker = 0 <=> c.failing = 0} : l \in BrokerSpecLists}

\* create_message_sink(**config["sink"])
CallCreateMessageSink ==
    /\ call.fn = "create_message_sink"
    /\ ~ret.done
    /\ ret' = Returned(create_brokers(call.broker_specs, call.failing_broker,
                                      call.failing))
    /\ UNCHANGED <<call, app_state, ms_vars>>

\* The keyword parameters of create_message_source.
create_message_sourceParameters ==
    {"org_specs", "replay_spec", "org_factory", "loop"}

\* Application._configure: the keywords of its call of
\* create_message_source, those of config["source"] and its own.
ConfigureKeywords(source_config) ==
    source_config \cup
        {"ignore_replay_storage_errors", "connection_timeout", "loop"}

\* A call of create_message_source by keywords: a keyword that is no
\* parameter of the function raises TypeError before its body runs.
call_create_message_source(keywords, org_specs, replay_spec) ==
    IF keywords \subseteq create_message_sourceParameters
    THEN Returned(create_message_source(org_specs, replay_spec))
    ELSE Raised("TypeError")

ConfigureCalls ==
    [fn : {"configure"},
     org_specs : OrgSpecLists,
     replay_spec : {NoReplaySpec, ReplaySpec},
     ignore_replay_storage_errors : BOOLEAN,
     source_connection_timeout : {20}]

\* Application._configure: create_message_source(**config["source"],
\* ignore_replay_storage_errors=..., connection_timeout=..., loop=...)
CallConfigure ==
    /\ call.fn = "configure"
    /\ ~ret.done
    /\ LET source_config ==
               {"org_specs"} \cup (IF call.replay_spec = NoReplaySpec
                                   THEN {}
                                   ELSE {"replay_spec"})
       IN  ret' = call_create_message_source(ConfigureKeywords(source_config),
                                             call.org_specs,
                                             call.replay_spec)
    /\ UNCHANGED <<call, app_state, ms_vars>>

CallInputs ==
    RouterCalls \cup SourceCalls \cup UnknownFieldCalls
        \cup LoadSpecCalls \cup ConfigCalls \cup ConfigureCalls
        \cup BrokerCalls \cup ConfigureRouterCalls
        \cup ApplicationConfigCalls \cup SinkCalls

CallInit ==
    /\ ignore_sink_errors = FALSE
    /\ replay_configured = FALSE
    /\ AppStart
    /\ call \in CallInputs
    /\ ret = NotReturned
    /\ MultiIdle

CallNext ==
    \/ CallFindRoute
    \/ CallCreateMessageSource
    \/ CallCheckUnknownFields
    \/ CallLoadSpec
    \/ CallLoadConfig
    \/ CallConfigure
    \/ CallCreateBroker
    \/ CallConfigureRouter
    \/ CallLoadApplicationConfig
    \/ CallCreateMessageSink

Calls == CallInit /\ [][CallNext]_vars

(***************************************************************************)
(* MultiMessageSource.get_message over its children.                       *)
(***************************************************************************)
MaxPulls == 4       \* successful get_message calls of one run

Children == 1..Len(SourceOrder)

\* The children in cyclic order, starting at the cursor.
Cyclic(cursor, k) == ((cursor - 1 + k) % Len(SourceOrder)) + 1

\* Mutant: the first ready child in configuration order is served.
NextReadyFirst(cursor, ready) ==
    CHOOSE i \in Children :
        ready[i] /\ \A j \in Children : ready[j] => i <= j

\* Round-robin over the ready children: the first ready child at or after
\* the cursor.
NextReady(cursor, ready) ==
    LET k == CHOOSE n \in 0..(Len(SourceOrder) - 1) :
                 /\ ready[Cyclic(cursor, n)]
                 /\ \A m \in 0..(n - 1) : ~ready[Cyclic(cursor, m)]
    IN  Cyclic(cursor, k)

\* A child receives a message, or has handed out its last one.
ChildReadiness(i) ==
    /\ Len(ms_pulls) < MaxPulls
    /\ ms_ready' = [ms_ready EXCEPT ![i] = ~@]
    /\ UNCHANGED <<ms_cursor, ms_pulls, call_vars, app_state>>

\* get_message returns the message of the child whose turn it is.
MultiGetMessage ==
    /\ Len(ms_pulls) < MaxPulls
    /\ \E i \in Children : ms_ready[i]
    /\ LET i == NextReady(ms_cursor, ms_ready)
       IN  /\ ms_pulls' = Append(ms_pulls,
                  [source_name |-> SourceOrder[i],
                   all_ready |-> \A j \in Children : ms_ready[j]])
           /\ ms_cursor' = Cyclic(i, 1)
    /\ UNCHANGED <<ms_ready, call_vars, app_state>>

MultiInit ==
    /\ ignore_sink_errors = FALSE
    /\ replay_configured = FALSE
    /\ AppStart
    /\ CallIdle
    /\ ms_ready \in [Children -> BOOLEAN]
    /\ ms_cursor \in Children
    /\ ms_pulls = <<>>

MultiNext ==
    \/ \E i \in Children : ChildReadiness(i)
    \/ MultiGetMessage

MultiSource == MultiInit /\ [][MultiNext]_vars

(***************************************************************************)
(* Properties                                                              *)
(***************************************************************************)
KeyOf(pair) == StoreKey(pair.source_name, pair.message.channel)
TaskIds == 1..Len(tasks)
InFlightEmpty == DOMAIN forwarding_tasks = {}
Forwarded(t) == tasks[t].outcome = "returned" /\ tasks[t].result # NoRoute
IgnoredSinkError(t) == tasks[t].outcome = "sink_error" /\ ignore_sink_errors
FatalOutcome(t) ==
    \/ tasks[t].outcome = "error"
    \/ tasks[t].outcome = "sink_error" /\ ~ignore_sink_errors

C3_DrainComplete ==
    (run_pc = "returned" /\ n_signals > 0) =>
        InFlightEmpty /\ source_closed /\ sink_closed

C3_Witness ==
    /\ run_pc = "returned"
    /\ n_signals > 0
    /\ Len(tasks) > 0

C5_AtLeastOnce ==
    (pump_pc = "done" /\ replay_configured) =>
        \A t \in TaskIds :
            Forwarded(t) =>
                store[KeyOf(tasks[t].pair)] >= tasks[t].pair.message.replayId

C5_Witness ==
    /\ pump_pc = "done"
    /\ replay_configured
    /\ \E t \in TaskIds : Forwarded(t) /\ tasks[t].state = "called"

\* C6 (P3): the marker of a (source, channel) never decreases, whatever the
\* order in which the forwarding tasks complete.
C6_MonotonicMarkers ==
    [][\A k \in Keys :
          store'[StoreKey(k[1], k[2])] >= store[StoreKey(k[1], k[2])]]_vars

\* A later event of a key completed before an earlier one.
C6_Witness ==
    /\ replay_configured
    /\ \E t, u \in TaskIds :
          /\ t < u
          /\ KeyOf(tasks[t].pair) = KeyOf(tasks[u].pair)
          /\ tasks[u].state = "called" /\ Forwarded(u)
          /\ tasks[t].state = "publishing"

C8_InFlightExact ==
    /\ DOMAIN forwarding_tasks = {t \in TaskIds : tasks[t].state # "called"}
    /\ \A t \in DOMAIN forwarding_tasks :
          forwarding_tasks[t] = tasks[t].pair

C8_Witness ==
    /\ \E t \in TaskIds : tasks[t].state = "called" /\ FatalOutcome(t)
    /\ ~InFlightEmpty

\* C9: a forwarding task calls sink.consume_message exactly once, with the
\* message and the fields of the route, when the router returns a route, and
\* its result is then that route; it never calls it when the router returns
\* none, and its result is then none.
C9_PublishIffRoute ==
    \A t \in TaskIds :
        LET pair == tasks[t].pair
            route == find_route(router, pair.source_name, pair.message)
        IN  tasks[t].state # "scheduled" =>
               IF route # NoRoute
               THEN /\ tasks[t].calls =
                          <<[message |-> pair.message,
                             broker_name |-> route.broker_name,
                             exchange_name |-> route.exchange_name,
                             routing_key |-> route.routing_key,
                             properties |-> route.properties]>>
                    /\ tasks[t].outcome = "returned" =>
                          tasks[t].result = route
               ELSE /\ tasks[t].calls = <<>>
                    /\ tasks[t].outcome = "returned"
                    /\ tasks[t].result = NoRoute

C9_Witness ==
    /\ \E t \in TaskIds : tasks[t].state = "called" /\ Forwarded(t)
    /\ \E t \in TaskIds :
          /\ tasks[t].state = "called"
          /\ tasks[t].outcome = "returned"
          /\ tasks[t].result = NoRoute

\* C10: SIGTERM and a keyboard interrupt both cancel the main task and leave
\* the event loop running with the main task where it was; when run()
\* returns after either of them the main task has completed its drain.
C10_SignalsAlike ==
    [][/\ (n_signals' = n_signals + 1 /\ run_pc' # "raised") =>
              /\ cancel_requested'
              /\ run_pc' \in {"loop1", "loop2"}
              /\ pump_pc' = pump_pc
              /\ UNCHANGED <<src_vars, sink_vars, task_vars, store_vars>>
       /\ (run_pc' = "returned" /\ signal_kinds' # {}) =>
              /\ pump_pc' = "done"
              /\ pump_result' = "ok"
              /\ source_closed' /\ sink_closed'
              /\ DOMAIN forwarding_tasks' = {}]_vars

C10_Witness ==
    /\ run_pc = "returned"
    /\ signal_kinds = {"SIGINT"}
    /\ Len(tasks) > 0
    /\ sink_closed

\* C11: run() goes Idle, Configured, Running in this order.  Right after
\* construction the source, the sink and the router are unset, the
\* configured flag is false and the in-flight map is empty; the source is
\* opened and messages are pulled only with the source, the sink and the
\* router built and the configured flag set.
C11_ConfigureFirst ==
    /\ run_pc = "init" =>
          /\ built = {}
          /\ router = UnsetRouter
          /\ ~configured
          /\ InFlightEmpty
          /\ ~source_opened
    /\ (pump_pc \notin {"none", "configure"} \/ source_opened
          \/ Len(tasks) > 0) =>
          /\ configured
          /\ built = {"source", "sink", "router"}
          /\ router = create_router(router_config.default_route_spec,
                                    router_config.rule_specs)

C11_Witness ==
    /\ configured
    /\ source_opened
    /\ pump_pc = "get"
    /\ Len(tasks) > 0

\* C12: create_router keeps the declared order of the rules and builds a
\* default route iff default_route_spec is not None; find_route returns the
\* route of the first declared rule whose condition matches the message and,
\* when no rule matches, the default route (None when there is none).
C12_FirstMatchWins ==
    (call.fn = "find_route" /\ ret.done) =>
        LET specs == call.rule_specs
            rtr == ret.value.router
            hits == {i \in 1..Len(specs) :
                        Matches(specs[i].condition_spec, call.source_name,
                                call.message)}
        IN  /\ Len(rtr.rules) = Len(specs)
            /\ \A i \in 1..Len(specs) :
                  /\ rtr.rules[i].condition = specs[i].condition_spec
                  /\ rtr.rules[i].route = specs[i].route_spec
            /\ (rtr.default_route = NoRoute) <=>
                  (call.default_route_spec = NoRoute)
            /\ rtr.default_route = call.default_route_spec
            /\ IF hits = {}
               THEN ret.value.route = call.default_route_spec
               ELSE \E i \in hits :
                       /\ \A j \in hits : i <= j
                       /\ ret.value.route = specs[i].route_spec

\* Two rules match and route differently; the first one decides.
C12_Witness ==
    /\ call.fn = "find_route"
    /\ ret.done
    /\ Len(call.rule_specs) = MaxRules
    /\ \A i \in 1..Len(call.rule_specs) :
          Matches(call.rule_specs[i].condition_spec, call.source_name,
                  call.message)
    /\ call.rule_specs[1].route_spec # call.rule_specs[MaxRules].route_spec
    /\ ret.value.route = call.rule_specs[1].route_spec

\* C13 (P6): in every window of 2k consecutive successful get_message calls
\* of a MultiMessageSource over two children during which both children had
\* a message ready at every call, each child contributes at least k-1
\* messages.
C13_FairMerge ==
    \A k \in 1..(MaxPulls \div 2) :
        \A a \in 1..Len(ms_pulls) :
            LET window == a..(a + 2 * k - 1)
            IN  (/\ a + 2 * k - 1 <= Len(ms_pulls)
                 /\ \A i \in window : ms_pulls[i].all_ready) =>
                    \A c \in Children :
                        Cardinality({i \in window :
                            ms_pulls[i].source_name = SourceOrder[c]})
                                >= k - 1

\* A window of four pulls with both children ready throughout.
C13_Witness ==
    /\ Len(ms_pulls) = 4
    /\ \A i \in 1..4 : ms_pulls[i].all_ready

\* C14: the markers of different sources never share a store key.  The
\* source named S keeps the marker of channel C under <key_prefix>:S:C, two
\* sources subscribed to the same channel use distinct keys, and the marker
\* read under the key of (S, C) is the replay id of the last event S
\* received on C (none when S received no event), never one written by
\* another source.
C14_OwnMarker ==
    replay_configured =>
        \A k \in Keys :
            store[StoreKey(k[1], k[2])] =
                IF next_replay[k] = FirstReplay[k]
                THEN 0
                ELSE next_replay[k] - 1

\* C15 as stated: the replay fallback given to every message source is
\* NEW_EVENTS or ALL_EVENTS: without a replay spec no storage is created and
\* the fallback is NEW_EVENTS, with a replay spec a storage is created and
\* the fallback is ALL_EVENTS.
C15_FallbackIsOption ==
    (call.fn = "create_message_source" /\ ret.done) =>
        \A i \in 1..Len(ret.value.sources) :
            LET src == ret.value.sources[i]
            IN  IF call.replay_spec = NoReplaySpec
                THEN src.replay = NoStorage
                     /\ src.replay_fallback = "NEW_EVENTS"
                ELSE src.replay # NoStorage
                     /\ src.replay_fallback = "ALL_EVENTS"

\* C15 as amended: without a replay spec every message source is given no
\* storage and no fallback (None); with a replay spec it is given the
\* storage built from the spec and the fallback ALL_EVENTS.
C15_FallbackNoneOrAll ==
    (call.fn = "create_message_source" /\ ret.done) =>
        \A i \in 1..Len(ret.value.sources) :
            LET src == ret.value.sources[i]
            IN  IF call.replay_spec = NoReplaySpec
                THEN src.replay = NoStorage
                     /\ src.replay_fallback = "None"
                ELSE src.replay = [address |-> call.replay_spec.address,
                                   key_prefix |->
                                       call.replay_spec.key_prefix]
                     /\ src.replay_fallback = "ALL_EVENTS"

C15_Witness ==
    /\ call.fn = "create_message_source"
    /\ ret.done
    /\ call.replay_spec = NoReplaySpec
    /\ Len(ret.value.sources) = MaxOrgs

\* C16 (P7): at every level of the configuration (every StrictSchema) the
\* check of unknown fields raises a validation error exactly when the mapping
\* holds a key that is no declared field of the level, and the field list of
\* the error is exactly the set of those keys; a resource spec with an unknown
\* key is never accepted, and an unknown field error of a resource spec names
\* exactly its unknown keys.
C16_UnknownRejected ==
    /\ (call.fn = "check_unknown_fields" /\ ret.done) =>
          LET unknown == {k \in call.original_data :
                             k \notin SchemaFields[call.schema]}
          IN  IF unknown = {}
              THEN ~ret.raised
              ELSE ret.raised /\ ret.error.field_names = unknown
    /\ (call.fn = "load_spec" /\ ret.done) =>
          LET unknown == {k \in call.spec.keys :
                             k \notin SchemaFields[schema_map[call.type]]}
          IN  /\ unknown # {} => ret.raised
              /\ ret.raised =>
                    \A e \in ret.error.schema :
                        e.message = "Unknown field" =>
                            unknown # {} /\ e.field_names = unknown

C16_Witness ==
    /\ call.fn = "check_unknown_fields"
    /\ ret.done
    /\ ret.raised
    /\ call.original_data \cap SchemaFields[call.schema] # {}
    /\ call.schema = "RouteSchema"

\* C17: a PushTopic spec with an ApiVersion in 20.0..42.0 that holds
\* NotifyForOperations is accepted only when ApiVersion <= 28.0, and one that
\* holds any of NotifyForOperationCreate/Update/Delete/Undelete is accepted
\* only when ApiVersion >= 29.0, versions strictly between 28.0 and 29.0
\* included.
C17_OperationsByVersion ==
    (/\ call.fn = "load_spec"
     /\ call.type = "PushTopic"
     /\ ret.done
     /\ ~ret.raised
     /\ "ApiVersion" \in call.spec.keys
     /\ call.spec.ApiVersion \in MinApiVersion..MaxApiVersion) =>
        /\ "NotifyForOperations" \in call.spec.keys =>
              call.spec.ApiVersion <= OldApiVersion
        /\ call.spec.keys \cap NewOperationFields # {} =>
              call.spec.ApiVersion >= NewApiVersion

C17_Witness ==
    /\ call.fn = "load_spec"
    /\ call.type = "PushTopic"
    /\ ret.done
    /\ ~ret.raised
    /\ call.spec.ApiVersion > OldApiVersion
    /\ call.spec.ApiVersion < NewApiVersion
    /\ "NotifyForOperations" \in call.spec.keys

\* A PushTopic spec whose every key is a declared field with a valid value
\* and whose fields agree with its ApiVersion: what is left to decide is the
\* check of the required fields.
C18_Case ==
    /\ call.fn = "load_spec"
    /\ call.type = "PushTopic"
    /\ ret.done
    /\ call.spec.keys \subseteq SchemaFields["PushTopicSchema"]
    /\ FieldErrors("PushTopicSchema", call.spec) = {}
    /\ ~check_api_version(call.spec).raised

\* C18 as stated: a PushTopic spec must hold Name, ApiVersion and Query
\* exactly when it holds a field that is no identifier (Id, Name); a spec of
\* identifier fields only (Id, Name, or both) is accepted as a reference.
C18_RequiredIffNonIdentifier ==
    C18_Case =>
        IF call.spec.keys \ {"Id", "Name"} # {}
        THEN ~ret.raised <=>
                 {"Name", "ApiVersion", "Query"} \subseteq call.spec.keys
        ELSE call.spec.keys # {} => ~ret.raised

\* C18 as amended: a PushTopic spec of exactly one field is accepted iff the
\* field is Id or Name; a spec of two or more fields is accepted iff it holds
\* Name, ApiVersion and Query, so Id and Name together are rejected; the
\* empty spec is rejected.
C18_RequiredWhenMultiple ==
    C18_Case =>
        (~ret.raised <=>
            \/ /\ Cardinality(call.spec.keys) = 1
               /\ call.spec.keys \subseteq {"Id", "Name"}
            \/ /\ Cardinality(call.spec.keys) > 1
               /\ {"Name", "ApiVersion", "Query"} \subseteq call.spec.keys)

C18_Witness ==
    /\ C18_Case
    /\ call.spec.keys = {"Id", "Name"}
    /\ ret.raised

\* C19: every route of an accepted configuration, the default route and the
\* route of every rule, has a non-empty routing_key and a broker_name that
\* is a key of sink.brokers (a name of the sink registry).
C19_RoutesResolve ==
    (call.fn = "load_config" /\ ret.done /\ ~ret.raised) =>
        LET registry == DOMAIN create_message_sink(ret.value.brokers)
            routes ==
                {ret.value.rules[i] : i \in 1..Len(ret.value.rules)}
                    \cup ({ret.value.default_route} \ {NoRoute})
        IN  \A route \in routes :
                /\ route.routing_key # ""
                /\ route.broker_name \in registry

C19_Witness ==
    /\ call.fn = "load_config"
    /\ ret.done
    /\ ~ret.raised
    /\ call.brokers = {"b1"}
    /\ call.default_route # NoRoute
    /\ call.default_route.broker_name = "b2"
    /\ call.rules = <<>>

\* C20: create_message_source builds exactly one message source for every
\* configured org, in configuration order, named after the org and wrapping
\* the org built from that org's spec; with exactly one org the result is
\* that source itself, with two or more it is a MultiMessageSource over all
\* of them.
C20_OneSourcePerOrg ==
    (call.fn = "create_message_source" /\ ret.done) =>
        /\ Len(ret.value.sources) = Len(call.org_specs)
        /\ \A i \in 1..Len(call.org_specs) :
              /\ ret.value.sources[i].name = call.org_specs[i].name
              /\ ret.value.sources[i].org =
                     [built_from |-> call.org_specs[i].spec]
        /\ ret.value.multi <=> Len(call.org_specs) >= 2

C20_Witness ==
    /\ call.fn = "create_message_source"
    /\ ret.done
    /\ Len(call.org_specs) = 1
    /\ ~ret.value.multi

\* C21: the orchestrator's ignore_replay_storage_errors flag and
\* source_connection_timeout reach every source: the call of
\* create_message_source by configure returns, and every message source it
\* builds holds that connection timeout and a replay store whose
\* ignore_network_errors is the flag.
C21_FlagsReachSources ==
    (call.fn = "configure" /\ ret.done) =>
        /\ ~ret.raised
        /\ \A i \in 1..Len(ret.value.sources) :
              LET src == ret.value.sources[i]
              IN  /\ "connection_timeout" \in DOMAIN src
                  /\ src.connection_timeout = call.source_connection_timeout
                  /\ call.replay_spec # NoReplaySpec =>
                        /\ "ignore_network_errors" \in DOMAIN src.replay
                        /\ src.replay.ignore_network_errors =
                               call.ignore_replay_storage_errors

C21_Witness ==
    /\ call.fn = "configure"
    /\ ret.done
    /\ ret.raised
    /\ call.replay_spec # NoReplaySpec
    /\ call.ignore_replay_storage_errors

\* C22: a resource spec of either type (PushTopic, StreamingChannel) with
\* exactly one field is accepted if and only if that field is Id or Name,
\* and an empty resource spec is always rejected.
C22_SingleFieldReference ==
    (call.fn = "load_spec" /\ ret.done) =>
        /\ Cardinality(call.spec.keys) = 1 =>
              (~ret.raised <=> call.spec.keys \subseteq {"Id", "Name"})
        /\ call.spec.keys = {} => ret.raised

C22_Witness ==
    /\ call.fn = "load_spec"
    /\ ret.done
    /\ call.type = "StreamingChannel"
    /\ call.spec.keys = {"Name"}
    /\ ~ret.raised

\* The messages pulled so far, in the order of their scheduling, followed by
\* the messages still buffered.
PulledThenBuffered == [i \in 1..Len(tasks) |-> tasks[i].pair] \o buffer

\* The replay ids of the messages of key k in a sequence of pairs.
IdsOf(pairs, k) ==
    LET mine == SelectSeq(pairs,
                    LAMBDA p : <<p.source_name, p.message.channel>> = k)
    IN  [i \in 1..Len(mine) |-> mine[i].message.replayId]

C24_SinkErrorSwallowed ==
    [][\A t \in TaskIds :
          (/\ ignore_sink_errors
           /\ tasks[t].outcome = "sink_error"
           /\ tasks[t].state = "settled"
           /\ tasks'[t].state = "called") =>
              /\ loop_error' = loop_error
              /\ cancel_requested' = cancel_requested
              /\ pump_pc' = pump_pc
              /\ run_pc' = run_pc
              /\ buffer' = buffer
              /\ DOMAIN forwarding_tasks' = DOMAIN forwarding_tasks \ {t}
              /\ \A u \in DOMAIN forwarding_tasks \ {t} :
                    /\ forwarding_tasks'[u] = forwarding_tasks[u]
                    /\ tasks'[u] = tasks[u]]_vars

\* An ignored sink error was swallowed while another task is in flight and
\* the pump is pulling, with no error and no cancellation.
C24_Witness ==
    /\ ignore_sink_errors
    /\ pump_pc = "get"
    /\ ~cancel_requested
    /\ ~cancel_observed
    /\ loop_error = "none"
    /\ \E t \in TaskIds :
          /\ tasks[t].state = "called"
          /\ tasks[t].outcome = "sink_error"
          /\ \E u \in DOMAIN forwarding_tasks :
                u > t /\ tasks[u].state = "scheduled"

C26_BrokerAfterDeclarations ==
    (call.fn = "create_broker" /\ ret.done) =>
        LET out == ret.value
            n == Len(call.exchange_specs)
            declared ==
                SelectSeq(out.done, LAMBDA st : st.op = "exchange_declare")
            opened(op) ==
                Len(SelectSeq(out.done, LAMBDA st : st.op = op))
        IN  /\ ~out.result.raised <=> call.failing = 0
            /\ ~out.result.raised =>
                  /\ opened("connect") = 1 /\ opened("channel") = 1
                  /\ out.done[1].op = "connect" /\ out.done[2].op = "channel"
                  /\ Len(declared) = n
            /\ \A i \in 1..Len(declared) :
                  declared[i].exchange_name =
                      call.exchange_specs[i].exchange_name
            /\ out.result.raised =>
                  /\ Len(out.done) = call.failing - 1
                  /\ opened("channel") <= 1
                  /\ Len(declared) < n

\* The second exchange declaration failed after the first one was made.
C26_Witness ==
    /\ call.fn = "create_broker"
    /\ ret.done
    /\ ret.value.result.raised
    /\ Len(call.exchange_specs) = MaxExchanges
    /\ call.failing = 4
    /\ Len(ret.value.done) = 3

\* C27: every router configuration accepted by MessageRouterSchema is
\* turned into a router by create_router; one that gives default_route and
\* omits rules yields a router with an empty rule list that returns the
\* default route for every event.
C27_AcceptedRouterBuilds ==
    (call.fn = "configure_router" /\ ret.done /\ ret.value.accepted) =>
        /\ ~ret.value.router.raised
        /\ "rules" \notin call.config.keys =>
              /\ ret.value.router.value.rules = <<>>
              /\ \A s \in Sources, c \in Channels :
                    find_route(ret.value.router.value, s,
                               [channel |-> c, replayId |-> 1])
                        = call.config.default_route

\* A configuration with default_route and without rules was accepted.
C27_Witness ==
    /\ call.fn = "configure_router"
    /\ ret.done
    /\ ret.value.accepted
    /\ call.config.keys = {"default_route"}
    /\ call.config.default_route = RouteA
    /\ ret.value.router.raised

\* C28: every accepted configuration has its source, sink and router
\* sections, at least one org with at least one resource each, at least one
\* broker with at least one exchange each, and a router.default_route key
\* (whose value may be null).
C28_AcceptedIsComplete ==
    (call.fn = "load_application_config" /\ ret.done /\ ~ret.raised) =>
        LET config == ret.value
        IN  /\ config.keys = {"source", "sink", "router"}
            /\ config.source.given /\ Len(config.source.items) >= 1
            /\ \A i \in 1..Len(config.source.items) :
                  config.source.items[i].given /\ config.source.items[i].n >= 1
            /\ config.sink.given /\ Len(config.sink.items) >= 1
            /\ \A i \in 1..Len(config.sink.items) :
                  config.sink.items[i].given /\ config.sink.items[i].n >= 1
            /\ "default_route" \in config.router.keys

\* A configuration with MaxEntries orgs and a null default route and no rules
\* key was accepted.
C28_Witness ==
    /\ call.fn = "load_application_config"
    /\ ret.done
    /\ ~ret.raised
    /\ Len(call.config.source.items) = MaxEntries
    /\ call.config.router.keys = {"default_route"}

\* C29: create_message_sink leaves no broker connection open when it fails:
\* when the creation of a broker fails at its connection, channel or exchange
\* declaration, no connection is open once the error has propagated, neither
\* to that broker nor to the brokers created before it.
C29_NoConnectionLeftOpen ==
    (call.fn = "create_message_sink" /\ ret.done) =>
        (ret.value.result.raised => ret.value.connected = {})

\* The second broker could not be connected to and the connection to the
\* first one is open after the error.
C29_Witness ==
    /\ call.fn = "create_message_sink"
    /\ ret.done
    /\ ret.value.result.raised
    /\ call.failing_broker = Cardinality(BrokerNames)
    /\ call.failing = 1
    /\ ret.value.connected = {call.broker_specs[1].name}

=============================================================================
